---- MODULE Spec2Model ----
(***************************************************************************)
(* A model of pflow's augmentation pipeline                                *)
(* (src/src/pflow/tools/augmentations.py), of the geometry helpers it uses *)
(* (src/src/pflow/polygons.py), of the dataset re-split                    *)
(* (src/src/pflow/tools/dataset.py) and of the job endpoints of            *)
(* src/src/server.py.                                                      *)
(*                                                                         *)
(* Seven specifications share the module:                                  *)
(*   SpecGeom    polygon_from_bbox / bbox_from_polygon on bounded inputs   *)
(*   SpecRaster  the fillPoly loop of generate_augmented_image             *)
(*   SpecJob     one call of generate_augmented_image, step by step        *)
(*   Spec        generate_augmentations / generic with its worker pool     *)
(*   SpecContour one call of get_new_polygon                               *)
(*   SpecSplit   one call of re_split_dataset                              *)
(*   SpecServer  start_job, the spawned workflow run and poll_results      *)
(*                                                                         *)
(* Library calls whose result the code only consumes (the random           *)
(* albumentations transform, cv2.findContours, shapely's areas,            *)
(* cv2.imread, cv2.imwrite) are nondeterministic choices.                  *)
(***************************************************************************)
EXTENDS Integers, Sequences, FiniteSets, TLC

VARIABLES
    gpc, gIn, gOut,                          \* SpecGeom
    rIndex, rMask, rLast, rIds,              \* SpecRaster
    jpc, jImage, jSegments, jMask, jTMask,   \* SpecJob
    jIds, jNew, jLib, jOut,
    dataset, dataset0, number, opc, dirMade, \* Spec
    futures, collected, new_images, producer,
    returned, result,
    cpc, cMask, cId, cAreas, cOut,           \* SpecContour
    spc, sDataset, sPct, sOut,               \* SpecSplit
    vStart, vRun, vStore, vResults, vPoll,   \* SpecServer
    vJobInfo, vPolls, vResp, vRet, vEver, vSeenFinished

geomVars   == <<gpc, gIn, gOut>>
rasterVars == <<rIndex, rMask, rLast, rIds>>
jobVars    == <<jpc, jImage, jSegments, jMask, jTMask, jIds, jNew, jLib, jOut>>
orchVars   == <<dataset, dataset0, number, opc, dirMade, futures, collected,
                new_images, producer, returned, result>>
contourVars == <<cpc, cMask, cId, cAreas, cOut>>
splitVars  == <<spc, sDataset, sPct, sOut>>
serverVars == <<vStart, vRun, vStore, vResults, vPoll, vJobInfo, vPolls,
                vResp, vRet, vEver, vSeenFinished>>
vars       == <<geomVars, rasterVars, jobVars, orchVars, contourVars,
                splitVars, serverVars>>

(***************************************************************************)
(* Bounds of the model.                                                    *)
(***************************************************************************)
MaxCoord == 2          \* bbox / polygon coordinates range over 0..MaxCoord
MaxPoints == 2         \* polygons of SpecGeom have at most MaxPoints points
NumPixels == 2         \* the image is a strip of NumPixels pixels
MaxPolys == 2          \* SpecJob: at most MaxPolys segments per call
MaxContours == 2       \* findContours returns at most MaxContours contours
MaxRasterPolys == 257  \* SpecRaster: length of the polygon list
MaxImages == 3         \* Spec: at most MaxImages input images
MaxNumber == 2         \* Spec: replica count 0..MaxNumber
MaxJobs == 4           \* Spec: len(images) * number <= MaxJobs
MaxSplitImages == 3    \* SpecSplit: at most MaxSplitImages images
MaxPolls == 2          \* SpecServer: at most MaxPolls calls of poll_results

(***************************************************************************)
(* Program constants.                                                      *)
(***************************************************************************)
UINT8_MAX == 255       \* mask = np.zeros(..., dtype=np.uint8)
IOU_THRESHOLD == 30    \* calculated_iou < 0.3, in hundredths
ROUNDING == 6          \* polygons.py: digits kept by round()

Pixels == 1..NumPixels

\* Python's None, and the two ways a call ends.
NoneVal == [kind |-> "None"]
Raised(what) == [kind |-> "raised", error |-> what]
Returned(v) == [kind |-> "returned", value |-> v]

Min(S) == CHOOSE x \in S : \A y \in S : x <= y
Max(S) == CHOOSE x \in S : \A y \in S : x >= y

RECURSIVE SeqsUpTo(_, _)
\* all sequences over S of length 0..n
SeqsUpTo(S, n) ==
    IF n = 0 THEN {<<>>}
    ELSE LET shorter == SeqsUpTo(S, n - 1)
         IN shorter \cup {Append(s, x) : s \in {t \in shorter : Len(t) = n - 1}, x \in S}

(***************************************************************************)
(* polygons.py                                                             *)
(***************************************************************************)
\* A mutant: the fourth corner repeats the first.
polygon_from_bbox_degenerate(bbox) ==
    <<bbox[1], bbox[2], bbox[3], bbox[2], bbox[3], bbox[2], bbox[1], bbox[2]>>

polygon_from_bbox(bbox) ==
    <<bbox[1], bbox[2], bbox[3], bbox[2], bbox[3], bbox[4], bbox[1], bbox[4]>>

\* x = polygon[0::2], y = polygon[1::2] (Python indices; TLA+ ones are +1)
EvenCoords(polygon) == {polygon[i] : i \in {k \in 1..Len(polygon) : k % 2 = 1}}
OddCoords(polygon) == {polygon[i] : i \in {k \in 1..Len(polygon) : k % 2 = 0}}

\* min() / max() of an empty list raise ValueError
bbox_from_polygon(polygon) ==
    LET x == EvenCoords(polygon)
        y == OddCoords(polygon)
    IN IF x = {} \/ y = {}
       THEN Raised("ValueError")
       ELSE Returned(<<Min(x), Min(y), Max(x), Max(y)>>)

Coords == 0..MaxCoord
Bboxes == Coords \X Coords \X Coords \X Coords
FlatPolygons == SeqsUpTo(Coords, 2 * MaxPoints)

GeomInit ==
    /\ gpc = "idle"
    /\ gIn = <<>>
    /\ gOut = NoneVal

\* bbox_from_polygon(polygon_from_bbox(b)) for an arbitrary 4-tuple b
RoundTrip ==
    /\ gpc = "idle"
    /\ \E b \in Bboxes :
        /\ gIn' = b
        /\ gOut' = bbox_from_polygon(polygon_from_bbox(b))
    /\ gpc' = "roundtrip"
    /\ UNCHANGED <<rasterVars, jobVars, orchVars, contourVars,
                   splitVars, serverVars>>

\* bbox_from_polygon(p) for an arbitrary flat tuple p, the empty one included
BboxOfPolygon ==
    /\ gpc = "idle"
    /\ \E p \in FlatPolygons :
        /\ gIn' = p
        /\ gOut' = bbox_from_polygon(p)
    /\ gpc' = "bbox"
    /\ UNCHANGED <<rasterVars, jobVars, orchVars, contourVars,
                   splitVars, serverVars>>

GeomNext == RoundTrip \/ BboxOfPolygon

(***************************************************************************)
(* The label mask: augmentations.py, generate_augmented_image, 140-146.    *)
(* A denormalized polygon is modelled by the set of pixels cv2.fillPoly    *)
(* paints for it; the mask is a function from pixels to uint8 values.      *)
(***************************************************************************)
\* the value a colour takes in a uint8 image: cv2 saturates the scalar
SaturateU8(color) ==
    IF color > UINT8_MAX THEN UINT8_MAX ELSE IF color < 0 THEN 0 ELSE color

\* mask = np.zeros((height, width), dtype=np.uint8)
ZeroMask == [p \in Pixels |-> 0]

\* cv2.fillPoly(mask, [pts], color)
FillPoly(mask, cover, color) ==
    [p \in Pixels |-> IF p \in cover THEN SaturateU8(color) ELSE mask[p]]

RECURSIVE RasterizeFrom(_, _, _)
\* for index, polygon_data in enumerate(polygons): fillPoly(mask, [pts], index + 1)
\* (k is index + 1, the position in the TLA+ sequence)
RasterizeFrom(mask, polygons, k) ==
    IF k > Len(polygons) THEN mask
    ELSE RasterizeFrom(FillPoly(mask, polygons[k], k), polygons, k + 1)

Rasterize(polygons) == RasterizeFrom(ZeroMask, polygons, 1)

\* SpecRaster runs the loop one polygon at a time on lists of up to
\* MaxRasterPolys polygons; each polygon covers the first pixel or all of them.
RasterCovers == {{1}, Pixels}

RasterInit ==
    /\ rIndex = 0
    /\ rMask = ZeroMask
    /\ rLast = [p \in Pixels |-> 0]
    /\ rIds = <<>>

\* one iteration of the loop: polygon number rIndex (0-based) is filled with
\* rIndex + 1. rLast remembers, per pixel, index + 1 of the last polygon that
\* covers it; rIds the value each polygon's pixels got.
RasterFill ==
    /\ rIndex < MaxRasterPolys
    /\ \E cover \in RasterCovers :
        /\ rMask' = FillPoly(rMask, cover, rIndex + 1)
        /\ rLast' = [p \in Pixels |-> IF p \in cover THEN rIndex + 1 ELSE rLast[p]]
        /\ rIds' = Append(rIds, FillPoly(ZeroMask, {1}, rIndex + 1)[1])
    /\ rIndex' = rIndex + 1
    /\ UNCHANGED <<geomVars, jobVars, orchVars, contourVars,
                   splitVars, serverVars>>

RasterNext == RasterFill

(***************************************************************************)
(* generate_augmented_image and what it calls: augmentations.py, 16-173.   *)
(*                                                                         *)
(* A segment (a flat tuple of normalized coordinates) is a record          *)
(*   [cover |-> the pixels its denormalized polygon paints,                *)
(*    even  |-> whether the tuple has an even number of entries].          *)
(* A recovered polygon is a record                                         *)
(*   [label |-> polygon_id, px |-> the pixels of the transformed mask      *)
(*    equal to polygon_id].                                                *)
(***************************************************************************)
ReadablePaths == {"a.jpg", "a2.jpg", "d.jpg"}

\* image = cv2.imread(image_path); height, width = image.shape[:2]
\* (imread returns None for a file it cannot read, and None has no shape)
ReadImage(image_path) ==
    IF image_path \in ReadablePaths THEN Returned("image")
    ELSE Raised("AttributeError")

\* polygon.extend([int(width * polygon_raw[i]), int(height * polygon_raw[i + 1])])
\* for i in range(0, len(polygon_raw), 2): an odd length reads past the end
Denormalize(segments) ==
    IF \E k \in 1..Len(segments) : ~segments[k].even
    THEN Raised("IndexError")
    ELSE Returned([k \in 1..Len(segments) |-> segments[k].cover])

\* transformed = transform(image=image, mask=mask): the geometric steps move
\* mask pixels with nearest-neighbour sampling and fill what comes from
\* outside the frame with 0; src[p] is the pixel that output pixel p samples
\* (0: outside the frame).
Samplings == [Pixels -> Pixels \cup {0}]
Transform(mask, src) == [p \in Pixels |-> IF src[p] = 0 THEN 0 ELSE mask[src[p]]]

RECURSIVE SortedSeq(_)
SortedSeq(S) == IF S = {} THEN <<>> ELSE <<Min(S)>> \o SortedSeq(S \ {Min(S)})

\* for polygon_id in np.unique(transformed_mask): if polygon_id > 0
PositiveIds(tmask) == SortedSeq({tmask[p] : p \in Pixels} \ {0})

RECURSIVE FindBiggestFrom(_, _, _, _)
\* the loop of find_biggest_contour; contours are given by their areas and
\* the result is the position of the chosen contour, 0 for None
FindBiggestFrom(areas, k, max_area, max_contour) ==
    IF k > Len(areas) THEN max_contour
    ELSE IF areas[k] > max_area
         THEN FindBiggestFrom(areas, k + 1, areas[k], k)
         ELSE FindBiggestFrom(areas, k + 1, max_area, max_contour)

find_biggest_contour(areas) == FindBiggestFrom(areas, 1, 0, 0)

get_new_polygon(tmask, polygon_id, areas) ==
    LET contour == find_biggest_contour(areas)
    IN IF contour = 0
       THEN Raised("No contour found")
       ELSE Returned([label |-> polygon_id,
                      px |-> {p \in Pixels : tmask[p] = polygon_id}])

\* What the libraries answer for one label id: the areas of the contours
\* cv2.findContours returns for its region (at least one: the region is not
\* empty), and what iou_polygons makes of the recovered polygon, in
\* hundredths, or the error it raises (a union of area 0).
ContourAreas == 0..2
ContourLists == SeqsUpTo(ContourAreas, MaxContours) \ {<<>>}
IouResults == {Returned(v) : v \in {29, 30}} \cup {Raised("ZeroDivisionError")}
LibResults == [areas : ContourLists, iou : IouResults]

\* if calculated_iou < 0.3
IouTooLow(iou) == iou < IOU_THRESHOLD

\* The body of the loop of get_new_polygons for one polygon_id. acc is
\* [new_polygons, error]: the list so far and the exception raised, if any.
GetNewPolygonsStep(acc, tmask, polygon_id, lib) ==
    IF acc.error # "none" THEN acc
    ELSE LET new_polygon == get_new_polygon(tmask, polygon_id, lib.areas)
         IN IF new_polygon.kind = "raised"
            THEN [acc EXCEPT !.error = new_polygon.error]
            ELSE IF lib.iou.kind = "raised"
            THEN [acc EXCEPT !.error = lib.iou.error]
            ELSE IF IouTooLow(lib.iou.value)
            THEN [acc EXCEPT !.error = "IoU is too low"]
            ELSE [acc EXCEPT !.new_polygons = Append(@, new_polygon.value)]

RECURSIVE GetNewPolygonsFrom(_, _, _, _, _)
GetNewPolygonsFrom(acc, tmask, ids, libs, k) ==
    IF k > Len(ids) THEN acc
    ELSE GetNewPolygonsFrom(GetNewPolygonsStep(acc, tmask, ids[k], libs[ids[k]]),
                            tmask, ids, libs, k + 1)

\* get_new_polygons(transformed_mask, polygons, width, height); libs gives the
\* libraries' answers per label id
get_new_polygons(tmask, libs) ==
    GetNewPolygonsFrom([new_polygons |-> <<>>, error |-> "none"], tmask,
                       PositiveIds(tmask), libs, 1)

\* A mutant: a replica that lost polygons is accepted with those it kept.
CheckCountPartial(acc, polygons) == acc

\* if len(new_polygons) != len(polygons): new_polygons = []; raise ValueError
CheckCount(acc, polygons) ==
    IF acc.error = "none" /\ Len(acc.new_polygons) # Len(polygons)
    THEN [new_polygons |-> <<>>, error |-> "Different number of polygons"]
    ELSE acc

\* except Exception: return None / if len(new_polygons) == 0: return None;
\* otherwise the call goes on to cv2.imwrite
AfterTry(acc) ==
    IF acc.error # "none" THEN Returned(NoneVal)
    ELSE IF Len(acc.new_polygons) = 0 THEN Returned(NoneVal)
    ELSE [kind |-> "write", new_polygons |-> acc.new_polygons]

\* new_id = f"{image_id}_aug_{new_index}"
NewId(image_id, new_index) == image_id \o "_aug_" \o ToString(new_index)

\* target_file = f"{target_folder}/{new_id}.jpg"
TargetFile(target_folder, image_id, new_index) ==
    target_folder \o "/" \o NewId(image_id, new_index) \o ".jpg"

\* cv2.imwrite(target_file, transformed_image); return {...}
WriteAndReturn(image_id, target_folder, new_index, new_polygons, write_ok) ==
    IF ~write_ok THEN Raised("cv2.error")
    ELSE Returned([kind |-> "record",
                   path |-> TargetFile(target_folder, image_id, new_index),
                   segments |-> new_polygons,
                   id |-> NewId(image_id, new_index),
                   original_id |-> image_id,
                   image_index |-> new_index])

\* generate_augmented_image up to cv2.imwrite. env is what the environment
\* decides: [ok |-> whether the transform runs through (it raises otherwise),
\* src |-> the sampling map of the transform, libs |-> the libraries' answers
\* per label id].
BeforeWrite(image_path, segments, env) ==
    LET image == ReadImage(image_path)
        polygons == Denormalize(segments)
    IN IF image.kind = "raised" THEN image
       ELSE IF polygons.kind = "raised" THEN polygons
       ELSE IF ~env.ok THEN AfterTry([new_polygons |-> <<>>, error |-> "transform"])
       ELSE LET tmask == Transform(Rasterize(polygons.value), env.src)
            IN AfterTry(CheckCount(get_new_polygons(tmask, env.libs), polygons.value))

(***************************************************************************)
(* SpecJob: one call generate_augmented_image(image_id, image_path,        *)
(* segments, target_folder, new_index), one step per stage.                *)
(***************************************************************************)
Covers == SUBSET Pixels
Segments == {[cover |-> c, even |-> TRUE] : c \in Covers}
                \cup {[cover |-> {}, even |-> FALSE]}
JobPaths == {"a.jpg", "missing.jpg"}
EmptyAcc == [new_polygons |-> <<>>, error |-> "none"]
Pending == [kind |-> "pending"]

JobInit ==
    /\ jpc = "start"
    /\ jImage \in JobPaths
    /\ jSegments \in SeqsUpTo(Segments, MaxPolys)
    /\ jMask = ZeroMask
    /\ jTMask = ZeroMask
    /\ jIds = <<>>
    /\ jNew = EmptyAcc
    /\ jLib = <<>>
    /\ jOut = Pending

\* lines 108-118 and 140-146: read the image, denormalize, rasterize
JobRead ==
    /\ jpc = "start"
    /\ LET image == ReadImage(jImage)
           polygons == Denormalize(jSegments)
       IN IF image.kind = "raised"
          THEN jOut' = image /\ jpc' = "done" /\ jMask' = jMask
          ELSE IF polygons.kind = "raised"
          THEN jOut' = polygons /\ jpc' = "done" /\ jMask' = jMask
          ELSE jOut' = jOut /\ jpc' = "transform" /\ jMask' = Rasterize(polygons.value)
    /\ UNCHANGED <<jImage, jSegments, jTMask, jIds, jNew, jLib>>
    /\ UNCHANGED <<geomVars, rasterVars, orchVars, contourVars,
                   splitVars, serverVars>>

\* lines 149-151: the transform yields a mask
JobTransform ==
    /\ jpc = "transform"
    /\ \E src \in Samplings : jTMask' = Transform(jMask, src)
    /\ jIds' = PositiveIds(jTMask')
    /\ jpc' = "recover"
    /\ UNCHANGED <<jImage, jSegments, jMask, jNew, jLib, jOut>>
    /\ UNCHANGED <<geomVars, rasterVars, orchVars, contourVars,
                   splitVars, serverVars>>

\* lines 122-151: building or applying the transform raises
JobTransformFails ==
    /\ jpc = "transform"
    /\ jNew' = [jNew EXCEPT !.error = "transform"]
    /\ jpc' = "check"
    /\ UNCHANGED <<jImage, jSegments, jMask, jTMask, jIds, jLib, jOut>>
    /\ UNCHANGED <<geomVars, rasterVars, orchVars, contourVars,
                   splitVars, serverVars>>

\* lines 81-94: one iteration of the loop of get_new_polygons; an exception
\* leaves the loop. jLib remembers, per label id handled, whether a contour
\* was chosen and what iou_polygons answered.
JobRecover ==
    /\ jpc = "recover"
    /\ jIds # <<>>
    /\ \E lib \in LibResults :
        /\ jNew' = GetNewPolygonsStep(jNew, jTMask, Head(jIds), lib)
        /\ jLib' = Append(jLib, [label |-> Head(jIds),
                                 found |-> find_biggest_contour(lib.areas) # 0,
                                 iou |-> lib.iou])
    /\ jIds' = Tail(jIds)
    /\ jpc' = IF jNew'.error # "none" THEN "check" ELSE "recover"
    /\ UNCHANGED <<jImage, jSegments, jMask, jTMask, jOut>>
    /\ UNCHANGED <<geomVars, rasterVars, orchVars, contourVars,
                   splitVars, serverVars>>

\* lines 156-164: the count check, the except clause, the empty result
JobCheck ==
    /\ \/ jpc = "recover" /\ jIds = <<>>
       \/ jpc = "check"
    /\ LET after == AfterTry(CheckCount(jNew, Denormalize(jSegments).value))
       IN IF after.kind = "write"
          THEN jpc' = "write" /\ jOut' = jOut
          ELSE jpc' = "done" /\ jOut' = after
    /\ UNCHANGED <<jImage, jSegments, jMask, jTMask, jIds, jNew, jLib>>
    /\ UNCHANGED <<geomVars, rasterVars, orchVars, contourVars,
                   splitVars, serverVars>>

\* lines 166-173: write the file, return the record
JobWrite ==
    /\ jpc = "write"
    /\ \E write_ok \in BOOLEAN :
        jOut' = WriteAndReturn("a", "/tmp/tmp_images_augmented/u", 0,
                               jNew.new_polygons, write_ok)
    /\ jpc' = "done"
    /\ UNCHANGED <<jImage, jSegments, jMask, jTMask, jIds, jNew, jLib>>
    /\ UNCHANGED <<geomVars, rasterVars, orchVars, contourVars,
                   splitVars, serverVars>>

JobNext ==
    \/ JobRead
    \/ JobTransform
    \/ JobTransformFails
    \/ JobRecover
    \/ JobCheck
    \/ JobWrite

(***************************************************************************)
(* generate_augmentations and generic: augmentations.py, 176-247.          *)
(***************************************************************************)
\* round(sum(x) / len(x), ROUNDING), in units of 10^-ROUNDING
RECURSIVE SumSeq(_)
SumSeq(q) == IF q = <<>> THEN 0 ELSE Head(q) + SumSeq(Tail(q))
Evens(polygon) == [k \in 1..((Len(polygon) + 1) \div 2) |-> polygon[2 * k - 1]]
Odds(polygon) == [k \in 1..(Len(polygon) \div 2) |-> polygon[2 * k]]
RoundedMean(q) == (2 * SumSeq(q) * 10^ROUNDING + Len(q)) \div (2 * Len(q))

calculate_center_from_polygon(polygon) ==
    IF Len(Evens(polygon)) = 0 \/ Len(Odds(polygon)) = 0
    THEN Raised("ZeroDivisionError")
    ELSE Returned(<<RoundedMean(Evens(polygon)), RoundedMean(Odds(polygon))>>)

RECURSIVE FlatFrom(_)
\* the flat tuple of a recovered polygon: the points (p - 1, 0) of its pixels
FlatFrom(pixels) ==
    IF pixels = <<>> THEN <<>> ELSE <<Head(pixels) - 1, 0>> \o FlatFrom(Tail(pixels))
Flat(polygon) == FlatFrom(SortedSeq(polygon.px))

Annotation(id, segmentation, tags) ==
    [id |-> id, category_id |-> 1, center |-> NoneVal, bbox |-> NoneVal,
     segmentation |-> segmentation, task |-> "segment", conf |-> -1,
     category_name |-> "cat", tags |-> tags]

Seg(cover) == [cover |-> cover, even |-> TRUE]

\* The images a dataset is drawn from: two readable images that share the id
\* "a" (one with an annotation that has no segmentation), an image whose file
\* cannot be read, and an image without segmented annotations.
ImagePool ==
    { [id |-> "a", path |-> "a.jpg", intermediate_ids |-> <<>>,
       width |-> 100, height |-> 100, size_kb |-> 10, group |-> "train",
       annotations |-> <<Annotation("a1", Seg({1}), <<>>),
                         Annotation("a2", Seg({2}), <<"manual">>)>>],
      [id |-> "a", path |-> "a2.jpg", intermediate_ids |-> <<"root">>,
       width |-> 200, height |-> 50, size_kb |-> 20, group |-> "val",
       annotations |-> <<Annotation("b1", NoneVal, <<"box">>),
                         Annotation("b2", Seg({1}), <<>>)>>],
      [id |-> "c", path |-> "missing.jpg", intermediate_ids |-> <<>>,
       width |-> 100, height |-> 100, size_kb |-> 10, group |-> "test",
       annotations |-> <<Annotation("c1", Seg({1}), <<>>)>>],
      [id |-> "d", path |-> "d.jpg", intermediate_ids |-> <<"root">>,
       width |-> 100, height |-> 100, size_kb |-> 10, group |-> "train",
       annotations |-> <<Annotation("d1", NoneVal, <<>>)>>] }

Categories == <<[id |-> 1, name |-> "cat"]>>
Groups == <<"train", "val", "test">>

\* random_temp_folder = f"/tmp/tmp_images_augmented/{uuid4()}"
random_temp_folder == "/tmp/tmp_images_augmented/uuid"

HasSegmentation(annotation) == annotation.segmentation # NoneVal

\* [annotation.segmentation for annotation in image.annotations
\*  if annotation.segmentation is not None]
AnnotationSegments(image) ==
    LET kept == SelectSeq(image.annotations, HasSegmentation)
    IN [k \in 1..Len(kept) |-> kept[k].segmentation]

\* A mutant: one replica too many per image (range(number + 1)).
SubmittedOneMore(imgs, n) ==
    [j \in 1..(Len(imgs) * (n + 1)) |->
        LET img == ((j - 1) \div (n + 1)) + 1
            i == (j - 1) % (n + 1)
        IN [img |-> img,
            image_id |-> imgs[img].id,
            image_path |-> imgs[img].path,
            segments |-> AnnotationSegments(imgs[img]),
            new_index |-> i,
            state |-> "queued",
            new_polygons |-> <<>>,
            result |-> Pending]]

\* for image in images: for i in range(number): futures.append(submit(...))
\* (img, the position of the image in the list, is kept for the properties;
\* the job's arguments are the other fields)
Submitted(imgs, n) ==
    [j \in 1..(Len(imgs) * n) |->
        LET img == ((j - 1) \div n) + 1
            i == (j - 1) % n
        IN [img |-> img,
            image_id |-> imgs[img].id,
            image_path |-> imgs[img].path,
            segments |-> AnnotationSegments(imgs[img]),
            new_index |-> i,
            state |-> "queued",
            new_polygons |-> <<>>,
            result |-> Pending]]

\* original_images_by_id = {image.id: image for image in images}, looked up
\* with an id: the position of the last image of the list that has the id
OriginalIndex(imgs, id) == Max({k \in 1..Len(imgs) : imgs[k].id = id})

MinOf(a, b) == IF a < b THEN a ELSE b

\* A mutant: "augmented" is appended to the parent annotation's own tags list.
NewImageTagsInPlace(original_image, info) ==
    LET n == MinOf(Len(original_image.annotations), Len(info.segments))
        tagged == [k \in 1..Len(original_image.annotations) |->
                     IF k <= n
                     THEN [original_image.annotations[k] EXCEPT
                             !.tags = Append(@, "augmented")]
                     ELSE original_image.annotations[k]]
    IN [original |-> [original_image EXCEPT !.annotations = tagged],
        new |-> [id |-> info.id,
                 path |-> info.path,
                 intermediate_ids |-> Append(original_image.intermediate_ids,
                                             original_image.id),
                 width |-> original_image.width,
                 height |-> original_image.height,
                 size_kb |-> original_image.size_kb,
                 group |-> original_image.group,
                 annotations |->
                    [k \in 1..n |->
                        [id |-> tagged[k].id \o "_" \o ToString(info.image_index),
                         segmentation |-> info.segments[k],
                         category_id |-> tagged[k].category_id,
                         bbox |-> bbox_from_polygon(Flat(info.segments[k])).value,
                         center |-> calculate_center_from_polygon(
                                        Flat(info.segments[k])).value,
                         task |-> tagged[k].task,
                         conf |-> tagged[k].conf,
                         category_name |-> tagged[k].category_name,
                         tags |-> tagged[k].tags]]]]

\* lines 208-235: the Image built from a job's record; `original` is the
\* parent image as the call leaves it, `new` the Image appended.
\* zip(original_image.annotations, new_image_info["segments"]) pairs the two
\* lists position by position and stops at the shorter one.
NewImage(original_image, info) ==
    LET n == MinOf(Len(original_image.annotations), Len(info.segments))
    IN [original |-> original_image,
        new |-> [id |-> info.id,
                 path |-> info.path,
                 intermediate_ids |-> Append(original_image.intermediate_ids,
                                             original_image.id),
                 width |-> original_image.width,
                 height |-> original_image.height,
                 size_kb |-> original_image.size_kb,
                 group |-> original_image.group,
                 annotations |->
                    [k \in 1..n |->
                        LET annotation == original_image.annotations[k]
                            new_segmentation == info.segments[k]
                        IN [id |-> annotation.id \o "_" \o ToString(info.image_index),
                            segmentation |-> new_segmentation,
                            category_id |-> annotation.category_id,
                            bbox |-> bbox_from_polygon(Flat(new_segmentation)).value,
                            center |-> calculate_center_from_polygon(
                                           Flat(new_segmentation)).value,
                            task |-> annotation.task,
                            conf |-> annotation.conf,
                            category_name |-> annotation.category_name,
                            tags |-> Append(annotation.tags, "augmented")]]]]

\* A mutant: the augmented images are added to the dataset's own list.
genericInPlace(ds, augmented_images) ==
    [dataset |-> [ds EXCEPT !.images = ds.images \o augmented_images],
     result |-> [images |-> ds.images \o augmented_images,
                 categories |-> ds.categories,
                 groups |-> ds.groups]]

\* lines 243-247: Dataset(images=dataset.images + augmented_images, ...);
\* `dataset` is the argument as the call leaves it, `result` what it returns
generic(ds, augmented_images) ==
    [dataset |-> ds,
     result |-> [images |-> ds.images \o augmented_images,
                 categories |-> ds.categories,
                 groups |-> ds.groups]]

\* What the environment decides for the jobs of Spec: the transform fails,
\* moves everything out of the frame, or leaves every pixel in place; every
\* region has one contour of area 1 and an IoU of 0.29 or 1.
Identity == [p \in Pixels |-> p]
AllOut == [p \in Pixels |-> 0]
OrchLibs == {[areas |-> <<1>>, iou |-> Returned(v)] : v \in {29, 100}}
OrchEnvs(segments) ==
    [ok : BOOLEAN, src : {Identity, AllOut}, libs : [1..Len(segments) -> OrchLibs]]

Datasets ==
    {[images |-> imgs, categories |-> Categories, groups |-> Groups] :
        imgs \in SeqsUpTo(ImagePool, MaxImages)}

Init ==
    /\ dataset \in Datasets
    /\ dataset0 = dataset
    /\ number \in 0..MaxNumber
    /\ Len(dataset.images) * number <= MaxJobs
    /\ opc = "start"
    /\ dirMade = 0
    /\ futures = <<>>
    /\ collected = {}
    /\ new_images = <<>>
    /\ producer = <<>>
    /\ returned = NoneVal
    /\ result = NoneVal

\* lines 177-201: make the folder, index the images, submit the jobs
Setup ==
    /\ opc = "start"
    /\ dirMade' = dirMade + 1
    /\ futures' = Submitted(dataset.images, number)
    /\ opc' = "collecting"
    /\ UNCHANGED <<dataset, dataset0, number, collected, new_images, producer,
                   returned, result>>
    /\ UNCHANGED <<geomVars, rasterVars, jobVars, contourVars,
                   splitVars, serverVars>>

\* a worker runs job k up to the point where it opens its output file
JobRun(k) ==
    /\ futures[k].state = "queued"
    /\ \E env \in OrchEnvs(futures[k].segments) :
        LET pre == BeforeWrite(futures[k].image_path, futures[k].segments, env)
        IN futures' = [futures EXCEPT ![k] =
               IF pre.kind = "write"
               THEN [@ EXCEPT !.state = "writing", !.new_polygons = pre.new_polygons]
               ELSE [@ EXCEPT !.state = "done", !.result = pre]]
    /\ UNCHANGED <<dataset, dataset0, number, opc, dirMade, collected, new_images,
                   producer, returned, result>>
    /\ UNCHANGED <<geomVars, rasterVars, jobVars, contourVars,
                   splitVars, serverVars>>

\* job k finishes cv2.imwrite and returns
JobFinish(k) ==
    /\ futures[k].state = "writing"
    /\ \E write_ok \in BOOLEAN :
        LET job == futures[k]
        IN futures' = [futures EXCEPT ![k] =
               [job EXCEPT !.state = "done",
                           !.result = WriteAndReturn(job.image_id, random_temp_folder,
                                          job.new_index, job.new_polygons, write_ok)]]
    /\ UNCHANGED <<dataset, dataset0, number, opc, dirMade, collected, new_images,
                   producer, returned, result>>
    /\ UNCHANGED <<geomVars, rasterVars, jobVars, contourVars,
                   splitVars, serverVars>>

\* lines 203-236: one iteration of `for future in as_completed(futures)`;
\* future.result() re-raises what the job raised
Collect(k) ==
    /\ opc = "collecting"
    /\ k \notin collected
    /\ futures[k].state = "done"
    /\ collected' = collected \cup {k}
    /\ LET outcome == futures[k].result
       IN IF outcome.kind = "raised"
          THEN /\ opc' = "raised"
               /\ UNCHANGED <<dataset, new_images, producer>>
          ELSE IF outcome.value = NoneVal
          THEN UNCHANGED <<dataset, opc, new_images, producer>>
          ELSE LET at == OriginalIndex(dataset.images, outcome.value.original_id)
                   built == NewImage(dataset.images[at], outcome.value)
               IN /\ new_images' = Append(new_images, built.new)
                  /\ producer' = Append(producer, k)
                  /\ dataset' = [dataset EXCEPT !.images[at] = built.original]
                  /\ opc' = opc
    /\ UNCHANGED <<dataset0, number, dirMade, futures, returned, result>>
    /\ UNCHANGED <<geomVars, rasterVars, jobVars, contourVars,
                   splitVars, serverVars>>

\* line 238: return new_images
Return ==
    /\ opc = "collecting"
    /\ collected = DOMAIN futures
    /\ returned' = new_images
    /\ opc' = "returned"
    /\ UNCHANGED <<dataset, dataset0, number, dirMade, futures, collected,
                   new_images, producer, result>>
    /\ UNCHANGED <<geomVars, rasterVars, jobVars, contourVars,
                   splitVars, serverVars>>

\* lines 241-247: generic builds the Dataset it returns
Generic ==
    /\ opc = "returned"
    /\ LET g == generic(dataset, returned)
       IN /\ dataset' = g.dataset
          /\ result' = g.result
    /\ opc' = "generic_returned"
    /\ UNCHANGED <<dataset0, number, dirMade, futures, collected, new_images,
                   producer, returned>>
    /\ UNCHANGED <<geomVars, rasterVars, jobVars, contourVars,
                   splitVars, serverVars>>

Next ==
    \/ Setup
    \/ \E k \in DOMAIN futures : JobRun(k)
    \/ \E k \in DOMAIN futures : JobFinish(k)
    \/ \E k \in DOMAIN futures : Collect(k)
    \/ Return
    \/ Generic

(***************************************************************************)
(* SpecContour: one call of get_new_polygon, in two steps: cv2.findContours *)
(* answers for the region of polygon_id, then find_biggest_contour picks.  *)
(***************************************************************************)
\* transformed_mask == polygon_id
Region(tmask, polygon_id) == {p \in Pixels : tmask[p] = polygon_id}

ContourInit ==
    /\ cpc = "start"
    /\ cMask \in [Pixels -> 0..MaxPolys]
    /\ cId \in 1..MaxPolys
    /\ cAreas = <<>>
    /\ cOut = Pending

\* contours = cv2.findContours(...)[0]: no contour for an empty region, at
\* least one otherwise. cv2.contourArea is 0 for the contour of a region one
\* pixel wide.
ContourFind ==
    /\ cpc = "start"
    /\ cAreas' \in (IF Region(cMask, cId) = {} THEN {<<>>} ELSE ContourLists)
    /\ cpc' = "found"
    /\ UNCHANGED <<cMask, cId, cOut>>
    /\ UNCHANGED <<geomVars, rasterVars, jobVars, orchVars, splitVars,
                   serverVars>>

\* contour = find_biggest_contour(contours) and the rest of get_new_polygon.
ContourSelect ==
    /\ cpc = "found"
    /\ cOut' = get_new_polygon(cMask, cId, cAreas)
    /\ cpc' = "done"
    /\ UNCHANGED <<cMask, cId, cAreas>>
    /\ UNCHANGED <<geomVars, rasterVars, jobVars, orchVars, splitVars,
                   serverVars>>

ContourNext == ContourFind \/ ContourSelect

(***************************************************************************)
(* SpecSplit: re_split_dataset (src/src/pflow/tools/dataset.py).           *)
(* Percentages are in hundredths; the values of Percents are multiples of  *)
(* 0.25, on which the float arithmetic of the code is exact.               *)
(***************************************************************************)
Percents == {0, 25, 50, 75, 100}
Range(seq) == {seq[k] : k \in DOMAIN seq}

\* An Image as re_split_dataset reads it. typedef.Image declares no `tags`
\* attribute: an image has one only if the caller set it on the object
\* (has_tags); reading it otherwise raises AttributeError.
SplitImage(k, has_tags, tags) ==
    [id |-> "i" \o ToString(k), path |-> "i" \o ToString(k) \o ".jpg",
     group |-> "test", has_tags |-> has_tags, tags |-> tags]
TagChoices ==
    {[has_tags |-> FALSE, tags |-> <<>>],
     [has_tags |-> TRUE, tags |-> <<>>],
     [has_tags |-> TRUE, tags |-> <<"augmented">>]}
SplitImageLists ==
    UNION {{[k \in 1..n |-> SplitImage(k, c[k].has_tags, c[k].tags)] :
                c \in [1..n -> TagChoices]} : n \in 0..MaxSplitImages}

\* "augmented" in (image.tags or [])
IsAugmented(image) == "augmented" \in Range(image.tags)
IsNotAugmented(image) == ~IsAugmented(image)

\* random.shuffle(images_to_resplit): any order of the list
Shuffles(seq) ==
    LET n == Len(seq)
    IN {[k \in 1..n |-> seq[f[k]]] :
            f \in {g \in [1..n -> 1..n] : \A a, b \in 1..n : g[a] = g[b] => a = b}}

\* seq[start:end] for 0 <= start
Slice(seq, start, end) ==
    LET last == MinOf(end, Len(seq))
    IN IF last <= start THEN <<>> ELSE [k \in 1..(last - start) |-> seq[start + k]]

calculate_total_images(total_images, train_percentage, val_percentage, test_percentage, num_augmented_images) ==
    LET train_before == (total_images * train_percentage) \div 100
        train_total_images_without_augmented == train_before - num_augmented_images
        train_total_images ==
            IF train_total_images_without_augmented < 0
            THEN num_augmented_images
            ELSE train_total_images_without_augmented
        remaining_images == total_images - train_total_images
    IN IF val_percentage + test_percentage = 0
       THEN Raised("ZeroDivisionError")
       ELSE LET val_total_images ==
                    (remaining_images * val_percentage)
                        \div (val_percentage + test_percentage)
            IN Returned(<<train_total_images, val_total_images,
                          remaining_images - val_total_images>>)

WithGroup(seq, group_name) == [k \in DOMAIN seq |-> [seq[k] EXCEPT !.group = group_name]]

assign_groups(images_to_resplit, augmented_images, groups_info) ==
    WithGroup(augmented_images, "train")
        \o WithGroup(Slice(images_to_resplit, groups_info[1][2], groups_info[1][3]),
                     groups_info[1][1])
        \o WithGroup(Slice(images_to_resplit, groups_info[2][2], groups_info[2][3]),
                     groups_info[2][1])
        \o WithGroup(Slice(images_to_resplit, groups_info[3][2], groups_info[3][3]),
                     groups_info[3][1])

\* groups = [] and the three conditional appends
GroupsOf(totals) ==
    (IF totals[1] > 0 THEN <<"train">> ELSE <<>>)
        \o (IF totals[2] > 0 THEN <<"val">> ELSE <<>>)
        \o (IF totals[3] > 0 THEN <<"test">> ELSE <<>>)

\* images_ids_by_group after the loop; the loop raises KeyError at the first
\* image whose group is not a key
IdsByGroup(images, groups) ==
    IF \E k \in DOMAIN images : images[k].group \notin Range(groups)
    THEN Raised("KeyError")
    ELSE Returned([g \in Range(groups) |->
            LET mine == SelectSeq(images, LAMBDA image : image.group = g)
            IN [k \in DOMAIN mine |-> mine[k].id]])

\* assign_groups sets image.group on the caller's Image objects
Regrouped(ds, images) ==
    [ds EXCEPT !.images =
        [k \in DOMAIN ds.images |->
            IF \E m \in DOMAIN images : images[m].id = ds.images[k].id
            THEN CHOOSE image \in Range(images) : image.id = ds.images[k].id
            ELSE ds.images[k]]]

PercentagesValid(pct) == pct[1] + pct[2] + pct[3] = 100

\* re_split_dataset; shuffled is the order random.shuffle leaves
\* images_to_resplit in. The value is [out, dataset]: what the call returns
\* or raises, and the caller's dataset afterwards.
re_split_dataset(ds, pct, shuffled) ==
    IF ~PercentagesValid(pct)
    THEN [out |-> Raised("The sum of the percentages must be 1.0"), dataset |-> ds]
    ELSE IF \E k \in DOMAIN ds.images : ~ds.images[k].has_tags
    THEN [out |-> Raised("AttributeError"), dataset |-> ds]
    ELSE LET augmented_images == SelectSeq(ds.images, IsAugmented)
             total_images == Len(ds.images)
             totals == calculate_total_images(total_images, pct[1], pct[2], pct[3],
                                              Len(augmented_images))
         IN IF totals.kind = "raised"
            THEN [out |-> totals, dataset |-> ds]
            ELSE LET t == totals.value
                     groups_info == <<<<"train", 0, t[1]>>,
                                      <<"val", t[1], t[1] + t[2]>>,
                                      <<"test", t[1] + t[2], total_images>>>>
                     images == assign_groups(shuffled, augmented_images, groups_info)
                     groups == GroupsOf(t)
                     images_ids_by_group == IdsByGroup(images, groups)
                 IN [out |-> IF images_ids_by_group.kind = "raised"
                             THEN images_ids_by_group
                             ELSE Returned(
                                    [dataset |-> [images |-> images,
                                                  categories |-> ds.categories,
                                                  groups |-> groups],
                                     ids_by_group |-> images_ids_by_group.value]),
                     dataset |-> Regrouped(ds, images)]

SplitInit ==
    /\ spc = "start"
    /\ \E images \in SplitImageLists :
        sDataset = [images |-> images, categories |-> Categories, groups |-> Groups]
    /\ sPct \in Percents \X Percents \X Percents
    /\ sOut = Pending

ReSplit ==
    /\ spc = "start"
    /\ \E shuffled \in Shuffles(SelectSeq(sDataset.images, IsNotAugmented)) :
        LET call == re_split_dataset(sDataset, sPct, shuffled)
        IN /\ sOut' = call.out
           /\ sDataset' = call.dataset
    /\ spc' = "done"
    /\ UNCHANGED sPct
    /\ UNCHANGED <<geomVars, rasterVars, jobVars, orchVars, contourVars,
                   serverVars>>

SplitNext == ReSplit

(***************************************************************************)
(* SpecServer: one job of src/src/server.py. start_job, the function it    *)
(* spawns (endpoint_run_workflow_cpu / _gpu, the same body) and            *)
(* poll_results run in different containers and share                      *)
(* persisted_jobs_dict; each read or write of the dict is one step.        *)
(* vStore is persisted_jobs_dict[job_id] (NoneVal: no such key), vRet the  *)
(* value the spawned function returned. run_workflow is a library call:    *)
(* it returns a results dict or raises.                                    *)
(***************************************************************************)
\* {**a, **b}
Merge(a, b) == b @@ a

ResultsDicts == {"output" :> r : r \in {"r1", "r2"}}
RunningRecord == ("call_id" :> "fc-1") @@ ("status" :> "running")
Completed == "status" :> "completed"

ServerInit ==
    /\ vStart = "idle" /\ vRun = "none" /\ vStore = NoneVal
    /\ vResults = NoneVal /\ vPoll = "idle" /\ vJobInfo = NoneVal
    /\ vPolls = 0 /\ vResp = NoneVal /\ vRet = NoneVal /\ vEver = FALSE
    /\ vSeenFinished = FALSE

\* start_job, lines 96-103: get_request, endpoint.spawn
StartSpawn ==
    /\ vStart = "idle"
    /\ \E has_workflow, spawned \in BOOLEAN :
        IF has_workflow /\ spawned
        THEN vStart' = "spawned" /\ vRun' = "started"
        ELSE vStart' = "error" /\ vRun' = vRun
    /\ UNCHANGED <<vStore, vResults, vPoll, vJobInfo, vPolls, vResp, vRet,
                   vEver, vSeenFinished>>
    /\ UNCHANGED <<geomVars, rasterVars, jobVars, orchVars, contourVars,
                   splitVars>>

\* start_job, lines 104-105: the record is stored after the spawn
StartWrite ==
    /\ vStart = "spawned"
    /\ vStore' = RunningRecord
    /\ vStart' = "returned"
    /\ UNCHANGED <<vRun, vResults, vPoll, vJobInfo, vPolls, vResp, vRet,
                   vEver, vSeenFinished>>
    /\ UNCHANGED <<geomVars, rasterVars, jobVars, orchVars, contourVars,
                   splitVars>>

\* the spawned function, lines 64-67: set_env and run_workflow
RunWorkflow ==
    /\ vRun = "started"
    /\ \/ \E results \in ResultsDicts :
            vResults' = results /\ vRun' = "computed"
       \/ vResults' = vResults /\ vRun' = "raised"
    /\ UNCHANGED <<vStart, vStore, vPoll, vJobInfo, vPolls, vResp, vRet,
                   vEver, vSeenFinished>>
    /\ UNCHANGED <<geomVars, rasterVars, jobVars, orchVars, contourVars,
                   splitVars>>

\* line 68: persisted_jobs_dict[job_id] = {**results, "status": "completed"}
RunWrite ==
    /\ vRun = "computed"
    /\ vStore' = Merge(vResults, Completed)
    /\ vEver' = TRUE
    /\ vRun' = "written"
    /\ UNCHANGED <<vStart, vResults, vPoll, vJobInfo, vPolls, vResp, vRet,
                   vSeenFinished>>
    /\ UNCHANGED <<geomVars, rasterVars, jobVars, orchVars, contourVars,
                   splitVars>>

\* line 69: return persisted_jobs_dict[job_id]
RunReturn ==
    /\ vRun = "written"
    /\ vRet' = vStore
    /\ vRun' = "returned"
    /\ UNCHANGED <<vStart, vStore, vResults, vPoll, vJobInfo, vPolls, vResp,
                   vEver, vSeenFinished>>
    /\ UNCHANGED <<geomVars, rasterVars, jobVars, orchVars, contourVars,
                   splitVars>>

\* poll_results, line 124: job_info = persisted_jobs_dict[job_id]. The
\* client has the job_id from the answer of start_job. vSeenFinished notes
\* whether the spawned function had returned when this poll began.
PollRead ==
    /\ vStart = "returned"
    /\ vPoll = "idle"
    /\ vPolls < MaxPolls
    /\ vJobInfo' = vStore
    /\ vSeenFinished' = (vRun = "returned")
    /\ vPolls' = vPolls + 1
    /\ vPoll' = "read"
    /\ UNCHANGED <<vStart, vRun, vStore, vResults, vResp, vRet, vEver>>
    /\ UNCHANGED <<geomVars, rasterVars, jobVars, orchVars, contourVars,
                   splitVars>>

\* poll_results, lines 125-141. function_call.get(timeout=0) returns what
\* the function returned, re-raises what it raised, or raises TimeoutError
\* while it runs.
PollAnswer ==
    /\ vPoll = "read"
    /\ IF vJobInfo.status = "completed"
       THEN /\ vResp' = [code |-> 200, body |-> vStore]
            /\ UNCHANGED <<vStore, vEver>>
       ELSE IF vRun = "returned"
       THEN /\ vStore' = Merge(Merge(vRet, vStore), Completed)
            /\ vResp' = [code |-> 200, body |-> vStore']
            /\ vEver' = TRUE
       ELSE IF vRun = "raised"
       THEN /\ vResp' = [code |-> 500, body |-> NoneVal]
            /\ UNCHANGED <<vStore, vEver>>
       ELSE /\ vResp' = [code |-> 202, body |-> vJobInfo]
            /\ UNCHANGED <<vStore, vEver>>
    /\ vPoll' = "idle"
    /\ UNCHANGED <<vStart, vRun, vResults, vJobInfo, vPolls, vRet, vSeenFinished>>
    /\ UNCHANGED <<geomVars, rasterVars, jobVars, orchVars, contourVars,
                   splitVars>>

ServerNext ==
    \/ StartSpawn \/ StartWrite
    \/ RunWorkflow \/ RunWrite \/ RunReturn
    \/ PollRead \/ PollAnswer

(***************************************************************************)
(* The specifications. Each leaves the variables of the others alone.      *)
(***************************************************************************)
\* Each specification starts the others' variables at fixed values and keeps
\* them there.
SpecGeomInit ==
    /\ GeomInit
    /\ rIndex = 0 /\ rMask = ZeroMask /\ rLast = ZeroMask
    /\ rIds = <<>>
    /\ jpc = "off" /\ jImage = "a.jpg" /\ jSegments = <<>>
    /\ jMask = ZeroMask /\ jTMask = ZeroMask /\ jIds = <<>>
    /\ jNew = EmptyAcc /\ jLib = <<>> /\ jOut = Pending
    /\ dataset = [images |-> <<>>, categories |-> Categories, groups |-> Groups] /\ dataset0 = dataset /\ number = 0
    /\ opc = "off" /\ dirMade = 0 /\ futures = <<>>
    /\ collected = {} /\ new_images = <<>> /\ producer = <<>>
    /\ returned = NoneVal /\ result = NoneVal
    /\ cpc = "off" /\ cMask = ZeroMask /\ cId = 0 /\ cAreas = <<>>
    /\ cOut = Pending
    /\ spc = "off" /\ sDataset = [images |-> <<>>, categories |-> Categories, groups |-> Groups]
    /\ sPct = <<0, 0, 0>> /\ sOut = Pending
    /\ vStart = "off" /\ vRun = "none" /\ vStore = NoneVal
    /\ vResults = NoneVal /\ vPoll = "off" /\ vJobInfo = NoneVal
    /\ vPolls = 0 /\ vResp = NoneVal /\ vRet = NoneVal /\ vEver = FALSE
    /\ vSeenFinished = FALSE

SpecRasterInit ==
    /\ RasterInit
    /\ gpc = "off" /\ gIn = <<>> /\ gOut = NoneVal
    /\ jpc = "off" /\ jImage = "a.jpg" /\ jSegments = <<>>
    /\ jMask = ZeroMask /\ jTMask = ZeroMask /\ jIds = <<>>
    /\ jNew = EmptyAcc /\ jLib = <<>> /\ jOut = Pending
    /\ dataset = [images |-> <<>>, categories |-> Categories, groups |-> Groups] /\ dataset0 = dataset /\ number = 0
    /\ opc = "off" /\ dirMade = 0 /\ futures = <<>>
    /\ collected = {} /\ new_images = <<>> /\ producer = <<>>
    /\ returned = NoneVal /\ result = NoneVal
    /\ cpc = "off" /\ cMask = ZeroMask /\ cId = 0 /\ cAreas = <<>>
    /\ cOut = Pending
    /\ spc = "off" /\ sDataset = [images |-> <<>>, categories |-> Categories, groups |-> Groups]
    /\ sPct = <<0, 0, 0>> /\ sOut = Pending
    /\ vStart = "off" /\ vRun = "none" /\ vStore = NoneVal
    /\ vResults = NoneVal /\ vPoll = "off" /\ vJobInfo = NoneVal
    /\ vPolls = 0 /\ vResp = NoneVal /\ vRet = NoneVal /\ vEver = FALSE
    /\ vSeenFinished = FALSE

SpecJobInit ==
    /\ JobInit
    /\ gpc = "off" /\ gIn = <<>> /\ gOut = NoneVal
    /\ rIndex = 0 /\ rMask = ZeroMask /\ rLast = ZeroMask
    /\ rIds = <<>>
    /\ dataset = [images |-> <<>>, categories |-> Categories, groups |-> Groups] /\ dataset0 = dataset /\ number = 0
    /\ opc = "off" /\ dirMade = 0 /\ futures = <<>>
    /\ collected = {} /\ new_images = <<>> /\ producer = <<>>
    /\ returned = NoneVal /\ result = NoneVal
    /\ cpc = "off" /\ cMask = ZeroMask /\ cId = 0 /\ cAreas = <<>>
    /\ cOut = Pending
    /\ spc = "off" /\ sDataset = [images |-> <<>>, categories |-> Categories, groups |-> Groups]
    /\ sPct = <<0, 0, 0>> /\ sOut = Pending
    /\ vStart = "off" /\ vRun = "none" /\ vStore = NoneVal
    /\ vResults = NoneVal /\ vPoll = "off" /\ vJobInfo = NoneVal
    /\ vPolls = 0 /\ vResp = NoneVal /\ vRet = NoneVal /\ vEver = FALSE
    /\ vSeenFinished = FALSE

SpecInit ==
    /\ Init
    /\ gpc = "off" /\ gIn = <<>> /\ gOut = NoneVal
    /\ rIndex = 0 /\ rMask = ZeroMask /\ rLast = ZeroMask
    /\ rIds = <<>>
    /\ jpc = "off" /\ jImage = "a.jpg" /\ jSegments = <<>>
    /\ jMask = ZeroMask /\ jTMask = ZeroMask /\ jIds = <<>>
    /\ jNew = EmptyAcc /\ jLib = <<>> /\ jOut = Pending
    /\ cpc = "off" /\ cMask = ZeroMask /\ cId = 0 /\ cAreas = <<>>
    /\ cOut = Pending
    /\ spc = "off" /\ sDataset = [images |-> <<>>, categories |-> Categories, groups |-> Groups]
    /\ sPct = <<0, 0, 0>> /\ sOut = Pending
    /\ vStart = "off" /\ vRun = "none" /\ vStore = NoneVal
    /\ vResults = NoneVal /\ vPoll = "off" /\ vJobInfo = NoneVal
    /\ vPolls = 0 /\ vResp = NoneVal /\ vRet = NoneVal /\ vEver = FALSE
    /\ vSeenFinished = FALSE

SpecContourInit ==
    /\ ContourInit
    /\ gpc = "off" /\ gIn = <<>> /\ gOut = NoneVal
    /\ rIndex = 0 /\ rMask = ZeroMask /\ rLast = ZeroMask
    /\ rIds = <<>>
    /\ jpc = "off" /\ jImage = "a.jpg" /\ jSegments = <<>>
    /\ jMask = ZeroMask /\ jTMask = ZeroMask /\ jIds = <<>>
    /\ jNew = EmptyAcc /\ jLib = <<>> /\ jOut = Pending
    /\ dataset = [images |-> <<>>, categories |-> Categories, groups |-> Groups] /\ dataset0 = dataset /\ number = 0
    /\ opc = "off" /\ dirMade = 0 /\ futures = <<>>
    /\ collected = {} /\ new_images = <<>> /\ producer = <<>>
    /\ returned = NoneVal /\ result = NoneVal
    /\ spc = "off" /\ sDataset = [images |-> <<>>, categories |-> Categories, groups |-> Groups]
    /\ sPct = <<0, 0, 0>> /\ sOut = Pending
    /\ vStart = "off" /\ vRun = "none" /\ vStore = NoneVal
    /\ vResults = NoneVal /\ vPoll = "off" /\ vJobInfo = NoneVal
    /\ vPolls = 0 /\ vResp = NoneVal /\ vRet = NoneVal /\ vEver = FALSE
    /\ vSeenFinished = FALSE

SpecSplitInit ==
    /\ SplitInit
    /\ gpc = "off" /\ gIn = <<>> /\ gOut = NoneVal
    /\ rIndex = 0 /\ rMask = ZeroMask /\ rLast = ZeroMask
    /\ rIds = <<>>
    /\ jpc = "off" /\ jImage = "a.jpg" /\ jSegments = <<>>
    /\ jMask = ZeroMask /\ jTMask = ZeroMask /\ jIds = <<>>
    /\ jNew = EmptyAcc /\ jLib = <<>> /\ jOut = Pending
    /\ dataset = [images |-> <<>>, categories |-> Categories, groups |-> Groups] /\ dataset0 = dataset /\ number = 0
    /\ opc = "off" /\ dirMade = 0 /\ futures = <<>>
    /\ collected = {} /\ new_images = <<>> /\ producer = <<>>
    /\ returned = NoneVal /\ result = NoneVal
    /\ cpc = "off" /\ cMask = ZeroMask /\ cId = 0 /\ cAreas = <<>>
    /\ cOut = Pending
    /\ vStart = "off" /\ vRun = "none" /\ vStore = NoneVal
    /\ vResults = NoneVal /\ vPoll = "off" /\ vJobInfo = NoneVal
    /\ vPolls = 0 /\ vResp = NoneVal /\ vRet = NoneVal /\ vEver = FALSE
    /\ vSeenFinished = FALSE

SpecServerInit ==
    /\ ServerInit
    /\ gpc = "off" /\ gIn = <<>> /\ gOut = NoneVal
    /\ rIndex = 0 /\ rMask = ZeroMask /\ rLast = ZeroMask
    /\ rIds = <<>>
    /\ jpc = "off" /\ jImage = "a.jpg" /\ jSegments = <<>>
    /\ jMask = ZeroMask /\ jTMask = ZeroMask /\ jIds = <<>>
    /\ jNew = EmptyAcc /\ jLib = <<>> /\ jOut = Pending
    /\ dataset = [images |-> <<>>, categories |-> Categories, groups |-> Groups] /\ dataset0 = dataset /\ number = 0
    /\ opc = "off" /\ dirMade = 0 /\ futures = <<>>
    /\ collected = {} /\ new_images = <<>> /\ producer = <<>>
    /\ returned = NoneVal /\ result = NoneVal
    /\ cpc = "off" /\ cMask = ZeroMask /\ cId = 0 /\ cAreas = <<>>
    /\ cOut = Pending
    /\ spc = "off" /\ sDataset = [images |-> <<>>, categories |-> Categories, groups |-> Groups]
    /\ sPct = <<0, 0, 0>> /\ sOut = Pending

SpecGeom == SpecGeomInit /\ [][GeomNext]_vars

SpecRaster == SpecRasterInit /\ [][RasterNext]_vars

SpecJob == SpecJobInit /\ [][JobNext]_vars

Spec == SpecInit /\ [][Next]_vars

SpecContour == SpecContourInit /\ [][ContourNext]_vars

SpecSplit == SpecSplitInit /\ [][SplitNext]_vars

SpecServer == SpecServerInit /\ [][ServerNext]_vars

(***************************************************************************)
(* The claims.                                                             *)
(***************************************************************************)
JobDone(k) == futures[k].state = "done"
IsRecord(outcome) == outcome.kind = "returned" /\ outcome.value # NoneVal

\* C1: an exception raised inside one (image, replica) job, whatever its
\* cause, becomes "no result" for that job: no job ends by raising, and
\* generate_augmentations never ends by raising.
C1_FailuresAbsorbed ==
    /\ \A k \in DOMAIN futures : JobDone(k) => futures[k].result.kind = "returned"
    /\ opc # "raised"

Accepted(k) ==
    \E e \in DOMAIN jLib :
        /\ jLib[e].label = k
        /\ jLib[e].found
        /\ jLib[e].iou.kind = "returned"
        /\ jLib[e].iou.value >= IOU_THRESHOLD
AllAccepted == \A k \in DOMAIN jSegments : Accepted(k)
ReachedValidation ==
    /\ ReadImage(jImage).kind = "returned"
    /\ \A k \in DOMAIN jSegments : jSegments[k].even

HasLineage(image, P, r) ==
    /\ image.id = P.id \o "_aug_" \o ToString(r)
    /\ image.intermediate_ids = P.intermediate_ids \o <<P.id>>
    /\ Len(image.annotations) <= Len(P.annotations)
    /\ \A i \in DOMAIN image.annotations :
        /\ image.annotations[i].id = P.annotations[i].id \o "_" \o ToString(r)
        /\ image.annotations[i].tags = P.annotations[i].tags \o <<"augmented">>

AllJobsNone ==
    /\ opc \notin {"off", "start"}
    /\ \A k \in DOMAIN futures : JobDone(k) /\ futures[k].result = Returned(NoneVal)
HasReturned == opc \in {"returned", "generic_returned"}

\* C5: when every job yields no result, generate_augmentations does not
\* raise and what it returns is the empty list; whatever the jobs yield, it
\* returns at most len(images) * number images.
C5_EmptyAndBounded ==
    /\ AllJobsNone => /\ opc # "raised"
                      /\ new_images = <<>>
                      /\ HasReturned => returned = <<>>
    /\ HasReturned => Len(returned) <= Len(dataset0.images) * number

\* every job of a run with jobs yielded None and the empty list came back
C5_Witness ==
    /\ opc = "returned"
    /\ futures # <<>>
    /\ AllJobsNone
    /\ returned = <<>>

\* C6: no two jobs that are writing at the same time write the same file,
\* and a job runs only after the output folder was made, once.
C6_NoWriteContention ==
    /\ \A j, k \in DOMAIN futures :
        (j # k /\ futures[j].state = "writing" /\ futures[k].state = "writing")
            => TargetFile(random_temp_folder, futures[j].image_id, futures[j].new_index)
                 # TargetFile(random_temp_folder, futures[k].image_id, futures[k].new_index)
    /\ (\E k \in DOMAIN futures : futures[k].state # "queued") => dirMade = 1

\* C7: every collected Image is attributed to the (image, replica) pair of
\* the job that produced it: its id is that image's id + _aug_ + the replica
\* index, its width, height, group and lineage are that image's, and no job
\* yields two Images.
C7_Attributed ==
    /\ \A m \in DOMAIN new_images :
        LET job == futures[producer[m]]
            P == dataset0.images[job.img]
        IN /\ new_images[m].id = P.id \o "_aug_" \o ToString(job.new_index)
           /\ new_images[m].width = P.width
           /\ new_images[m].height = P.height
           /\ new_images[m].group = P.group
           /\ new_images[m].intermediate_ids = P.intermediate_ids \o <<P.id>>
    /\ \A m, n \in DOMAIN producer : producer[m] = producer[n] => m = n

WellFormed(b) == b[1] < b[3] /\ b[2] < b[4]

\* C8: bbox_from_polygon(polygon_from_bbox(b)) = b for every b with x1 < x2
\* and y1 < y2, and bbox_from_polygon of the polygon without points raises.
C8_RoundTrip ==
    /\ (gpc = "roundtrip" /\ WellFormed(gIn)) => gOut = Returned(gIn)
    /\ (gpc = "bbox" /\ gIn = <<>>) => gOut.kind = "raised"

\* the round trip of a well-formed bbox whose corners differ in x and y
C8_Witness == gpc = "roundtrip" /\ WellFormed(gIn) /\ gIn[1] # gIn[2]

\* C9: after the polygons are rasterized, every pixel of the mask is 0 if no
\* polygon covers it and index + 1 of the last polygon that covers it
\* otherwise.
C9_LastWriteWins == \A p \in Pixels : rMask[p] = rLast[p]

\* C10: the polygon at list index k has the mask value k + 1, so the values
\* of distinct polygons differ and none is the background value 0.
C10_IdIsIndexPlusOne ==
    /\ \A k \in DOMAIN rIds : rIds[k] = k
    /\ \A k, m \in DOMAIN rIds : rIds[k] = rIds[m] => k = m
    /\ \A k \in DOMAIN rIds : rIds[k] > 0

(***************************************************************************)
(* Facts the divergences above rest on.                                    *)
(***************************************************************************)
DistinctIds ==
    \A a, b \in DOMAIN dataset0.images :
        dataset0.images[a].id = dataset0.images[b].id => a = b

\* with pairwise distinct image ids the files written and the attribution
\* are as C6 and C7 say
DistinctIdsNoContention == DistinctIds => C6_NoWriteContention
DistinctIdsAttributed == DistinctIds => C7_Attributed

\* up to UINT8_MAX polygons the mask is last-write-wins and the ids are
\* index + 1, as C9 and C10 say
SmallListLastWriteWins == rIndex <= UINT8_MAX => C9_LastWriteWins
SmallListIdIsIndexPlusOne == rIndex <= UINT8_MAX => C10_IdIsIndexPlusOne

\* a polygon that later polygons cover entirely has no pixel in the mask, and
\* the call does not return a record
CoveredBy(k) == UNION {jSegments[m].cover : m \in (k + 1)..Len(jSegments)}
Hidden(k) == jSegments[k].cover \subseteq CoveredBy(k)
HiddenPolygonRejected ==
    \A k \in DOMAIN jSegments :
        (Hidden(k) /\ jpc \notin {"off", "start"} /\ jOut.kind # "raised")
            => /\ \A p \in Pixels : jMask[p] # k
               /\ jpc = "done" => jOut = Returned(NoneVal)

\* The contour find_biggest_contour picks, as a position in the list (0 for
\* None), and whether it encloses at least as much as every other one.
Chosen == find_biggest_contour(cAreas)
ChosenIsBiggest ==
    /\ Chosen \in DOMAIN cAreas
    /\ \A i \in DOMAIN cAreas : cAreas[Chosen] >= cAreas[i]

\* C11: for a label id whose region has one or more external contours,
\* get_new_polygon returns a polygon taken from a contour whose area is >=
\* that of every other contour of the id, and it raises "No contour found"
\* only when the region has no contour at all.
C11_BiggestOrNone ==
    cpc = "done" =>
        /\ cAreas # <<>> => (cOut.kind = "returned" /\ ChosenIsBiggest)
        /\ cOut = Raised("No contour found") => cAreas = <<>>

\* What the code does guarantee: a region with a contour of positive area
\* yields the polygon of a contour of the largest area, and the error is
\* raised exactly when no contour has a positive area.
PositiveAreaBiggest ==
    cpc = "done" =>
        IF \E i \in DOMAIN cAreas : cAreas[i] > 0
        THEN cOut.kind = "returned" /\ ChosenIsBiggest
        ELSE cOut = Raised("No contour found")

\* The annotation of input image P from which the job recovered the polygon
\* with this label: labels number the segments handed to the job, which are
\* those of P's annotations that have a segmentation, in order.
RecoveredFrom(P, label) == SelectSeq(P.annotations, HasSegmentation)[label]
Inherits(a, parent, r) ==
    /\ a.id = parent.id \o "_" \o ToString(r)
    /\ a.category_id = parent.category_id
    /\ a.task = parent.task
    /\ a.tags = parent.tags \o <<"augmented">>

\* C12: in every Image that generate_augmentations returns, each new
\* Annotation carries the polygon recovered from the very annotation of the
\* job's input image whose id, category_id, task and tags it inherits, also
\* when some annotations of that image have no segmentation.
C12_Correspondence ==
    opc = "returned" =>
        \A m \in DOMAIN returned :
            LET job == futures[producer[m]]
                P == dataset0.images[job.img]
            IN \A i \in DOMAIN returned[m].annotations :
                LET a == returned[m].annotations[i]
                IN Inherits(a, RecoveredFrom(P, a.segmentation.label),
                            job.new_index)

\* With pairwise distinct image ids and a segmentation on every annotation,
\* polygons and annotations correspond as C12 says.
AllSegmented ==
    \A k \in DOMAIN dataset0.images :
        \A i \in DOMAIN dataset0.images[k].annotations :
            HasSegmentation(dataset0.images[k].annotations[i])
AllSegmentedCorrespondence ==
    (DistinctIds /\ AllSegmented) => C12_Correspondence

\* What C13 says of a returned value: each input image exactly once, the
\* augmented ones in "train", the others in one of the three groups, every
\* group listed in the returned groups, and ids_by_group built over them.
IsPartition(value) ==
    LET out == value.dataset.images
        groups == Range(value.dataset.groups)
    IN /\ Len(out) = Len(sDataset.images)
       /\ \A k \in DOMAIN sDataset.images :
            Cardinality({m \in DOMAIN out : out[m].id = sDataset.images[k].id}) = 1
       /\ \A m \in DOMAIN out :
            /\ IsAugmented(out[m]) => out[m].group = "train"
            /\ out[m].group \in {"train", "val", "test"}
            /\ out[m].group \in groups
       /\ DOMAIN value.ids_by_group = groups
       /\ \A m \in DOMAIN out :
            out[m].id \in Range(value.ids_by_group[out[m].group])

\* C13: for every dataset and every percentage triple that passes the
\* validation, re_split_dataset returns (building ids_by_group does not
\* fail) and the returned dataset is a partition of the input images:
\* each exactly once, augmented images in "train", the others in one of
\* "train"/"val"/"test", every image's group in the returned groups list.
C13_Partition ==
    (spc = "done" /\ PercentagesValid(sPct)) =>
        /\ sOut.kind = "returned"
        /\ IsPartition(sOut.value)

\* What the code does guarantee: whatever it returns is such a partition,
\* and it returns when every image carries a tags attribute, val and test
\* percentages are not both 0, and the non-augmented train count is positive
\* or there is no augmented image.
TrainCount ==
    LET n == Len(SelectSeq(sDataset.images, IsAugmented))
        before == (Len(sDataset.images) * sPct[1]) \div 100
    IN IF before - n < 0 THEN n ELSE before - n
ReturnedIsPartition ==
    (spc = "done" /\ sOut.kind = "returned") => IsPartition(sOut.value)
ReturnsWhenTrainListed ==
    (/\ spc = "done" /\ PercentagesValid(sPct)
     /\ \A k \in DOMAIN sDataset.images : sDataset.images[k].has_tags
     /\ sPct[2] + sPct[3] > 0
     /\ (TrainCount > 0 \/ SelectSeq(sDataset.images, IsAugmented) = <<>>))
        => sOut.kind = "returned"
\* the case C13 names: augmented images exist, every image has tags, and
\* the non-augmented train count is 0
TrainCountZeroRaises ==
    (/\ spc = "done" /\ PercentagesValid(sPct)
     /\ \A k \in DOMAIN sDataset.images : sDataset.images[k].has_tags
     /\ sPct[2] + sPct[3] > 0
     /\ TrainCount = 0 /\ SelectSeq(sDataset.images, IsAugmented) # <<>>)
        => sOut = Raised("KeyError")

\* The stored record is completed and carries what run_workflow returned.
StoredCompleted ==
    /\ vStore.status = "completed"
    /\ "output" \in DOMAIN vStore
    /\ vStore = Merge(vStore, vResults)
\* A poll that began after the spawned function had returned has answered.
PolledAfterFinish == vPoll = "idle" /\ vResp # NoneVal /\ vSeenFinished

\* C14: under every interleaving of start_job, the spawned workflow run and
\* poll_results for one job_id, once the stored record has had status
\* "completed" it is never "running" again and it keeps the workflow's
\* results; and a poll_results that begins after the workflow run finished
\* reports the job as completed.
C14_StatusMonotonic ==
    /\ vEver => StoredCompleted
    /\ PolledAfterFinish => (vResp.code = 200 /\ vResp.body.status = "completed")

\* What the code does guarantee: the poll after the finish answers
\* "completed"; and the stored record stays completed with the results when
\* start_job has stored its record before the run stores its own.
FinishedReportedCompleted ==
    PolledAfterFinish => (vResp.code = 200 /\ vResp.body.status = "completed")
StartWroteFirst ==
    [][(vEver /\ StoredCompleted /\ vStart = "returned") => StoredCompleted']_vars

====
